---- MODULE Spec2Model ----
(***************************************************************************)
(* AsyncClient of asyncclient.go: a facade that turns every metric call    *)
(* into a closure sent on the buffered channel requestChan, one goroutine  *)
(* (process) that receives the closures, runs them against the synchronous *)
(* statsd client and sends every non-nil result on the buffered channel    *)
(* ErrorChan, and Close, which closes the statsd client and then the       *)
(* channel.                                                                *)
(*                                                                         *)
(* Channels follow the Go runtime: a send on a buffered channel appends    *)
(* when the buffer has room, parks the sender (FIFO) when it is full and   *)
(* panics when the channel is closed; a receive takes the head of the      *)
(* buffer and, in the same step, moves the value of the first parked       *)
(* sender into the buffer; a receive on a closed and empty channel yields  *)
(* open = false; close panics on a closed channel and makes every parked   *)
(* sender panic.  A panicking goroutine is left in a terminal state; the   *)
(* other goroutines may go on (the panic was recovered) or stop (the       *)
(* process died): the specification admits both.                           *)
(*                                                                         *)
(* The statsd client (StatsdClient) is an external collaborator: each of   *)
(* its operations takes some time and returns nil or an error, chosen      *)
(* nondeterministically.                                                   *)
(***************************************************************************)
EXTENDS Integers, Sequences, FiniteSets, TLC

\* Capacity of requestChan (1000 in NewAsyncClient), scaled down.
QueueCap == 2

\* Capacity of ErrorChan (100 in NewAsyncClient), scaled down.
ErrCap == 1

\* The application's goroutines that call the facade.
Callers == {"c1", "c2"}

\* Arguments of the metric calls.
Stats == {"a"}
Values == {1}

\* The nil error, the errors the metric operations of the statsd client may
\* return, and the error its Close() may return.
Nil == "nil"
Errors == {"E1", "E2"}
CloseErrors == {"EC"}

\* What c.statsd.Close() may return, whenever it is called: the statsd
\* client promises success or a transport error, nothing more.
StatsdCloseResults == CloseErrors \cup {Nil}

\* The metric methods of the facade.
Kinds ==
    {"Incr", "Decr", "Timing", "PrecisionTiming", "Gauge", "GaugeDelta",
     "FGauge", "FGaugeDelta", "Absolute", "FAbsolute", "Total", "SendEvent"}

\* The metric methods each goroutine of the application uses in one run.
\* The twelve methods differ only in the statsd operation their closure
\* names, and the facade never inspects a closure.
Workloads ==
    {[c1 |-> {"Incr", "Decr"}, c2 |-> {"Timing", "PrecisionTiming"}],
     [c1 |-> {"Gauge", "GaugeDelta"}, c2 |-> {"FGauge", "FGaugeDelta"}],
     [c1 |-> {"Absolute", "FAbsolute"}, c2 |-> {"Total", "SendEvent"}]}

\* A closure is a record of the statsd operation it names, the arguments it
\* captured and (for the properties only) the goroutine that made the call.
NoCall == [kind |-> "none", stat |-> "", value |-> 0, by |-> ""]

VARIABLES
    requestChan,  \* buffer of c.requestChan
    closed,       \* c.requestChan has been closed
    sendq,        \* goroutines parked in a send on c.requestChan, oldest first
    sending,      \* the closure each parked (or panicked) sender was sending
    ErrorChan,    \* buffer of c.ErrorChan
    wpc,          \* position of process(): "recv", "exec", "post", "done"
    req,          \* process(): the closure received
    err,          \* process(): the error req() returned
    inflight,     \* statsd metric operations started and not yet returned
    cpc,          \* position of each caller: "idle", "send" (parked), "sock"
                  \* (in c.statsd.CreateSocket()), "close" (in
                  \* c.statsd.Close()), "closeRet" (it returned),
                  \* "panicSend", "panicParked", "panicClose"
    ret,          \* err of each caller's Close(): what c.statsd.Close() returned,
                  \* which is what Close() returns; "none" outside Close()
    pending,      \* per caller, its calls the statsd client has not yet completed
    unread,       \* errors the statsd client returned, not yet read by the application
    workload      \* the metric methods each caller uses

vars ==
    <<requestChan, closed, sendq, sending, ErrorChan, wpc, req, err, inflight,
      cpc, ret, pending, unread, workload>>

\* NewAsyncClient: empty channels, process() started.
Init ==
    /\ requestChan = <<>>
    /\ closed = FALSE
    /\ sendq = <<>>
    /\ sending = [t \in Callers |-> NoCall]
    /\ ErrorChan = <<>>
    /\ wpc = "recv"
    /\ req = NoCall
    /\ err = Nil
    /\ inflight = 0
    /\ cpc = [t \in Callers |-> "idle"]
    /\ ret = [t \in Callers |-> "none"]
    /\ pending = [t \in Callers |-> <<>>]
    /\ unread = <<>>
    /\ workload \in Workloads

----------------------------------------------------------------------------
\* CreateSocket(): c.statsd.CreateSocket() is called.
CreateSocketBegin(t) ==
    /\ cpc[t] = "idle"
    /\ cpc' = [cpc EXCEPT ![t] = "sock"]
    /\ ret' = [ret EXCEPT ![t] = "none"]
    /\ UNCHANGED <<requestChan, closed, sendq, sending, ErrorChan, wpc, req, err,
                   inflight, pending, unread, workload>>

\* CreateSocket(): c.statsd.CreateSocket() returns, and CreateSocket()
\* returns what it returned; the facade keeps nothing of it.
CreateSocketReturn(t) ==
    /\ cpc[t] = "sock"
    /\ cpc' = [cpc EXCEPT ![t] = "idle"]
    /\ UNCHANGED <<requestChan, closed, sendq, sending, ErrorChan, wpc, req, err,
                   inflight, ret, pending, unread, workload>>

----------------------------------------------------------------------------
\* ChanSend with the buffer declared full one slot early.
ChanSendEarlyFull(t, call) ==
    IF closed
    THEN /\ cpc' = [cpc EXCEPT ![t] = "panicSend"]
         /\ sending' = [sending EXCEPT ![t] = call]
         /\ UNCHANGED <<requestChan, sendq>>
    ELSE IF Len(requestChan) < QueueCap - 1
    THEN /\ requestChan' = Append(requestChan, call)
         /\ UNCHANGED <<cpc, sending, sendq>>
    ELSE /\ cpc' = [cpc EXCEPT ![t] = "send"]
         /\ sending' = [sending EXCEPT ![t] = call]
         /\ sendq' = Append(sendq, t)
         /\ UNCHANGED requestChan

\* ChanSend that does not look at whether the channel is closed.
ChanSendOnClosed(t, call) ==
    IF Len(requestChan) < QueueCap
    THEN /\ requestChan' = Append(requestChan, call)
         /\ UNCHANGED <<cpc, sending, sendq>>
    ELSE /\ cpc' = [cpc EXCEPT ![t] = "send"]
         /\ sending' = [sending EXCEPT ![t] = call]
         /\ sendq' = Append(sendq, t)
         /\ UNCHANGED requestChan

\* c.requestChan <- f, by goroutine t.
ChanSend(t, call) ==
    IF closed
    THEN /\ cpc' = [cpc EXCEPT ![t] = "panicSend"]
         /\ sending' = [sending EXCEPT ![t] = call]
         /\ UNCHANGED <<requestChan, sendq>>
    ELSE IF Len(requestChan) < QueueCap
    THEN /\ requestChan' = Append(requestChan, call)
         /\ UNCHANGED <<cpc, sending, sendq>>
    ELSE /\ cpc' = [cpc EXCEPT ![t] = "send"]
         /\ sending' = [sending EXCEPT ![t] = call]
         /\ sendq' = Append(sendq, t)
         /\ UNCHANGED requestChan

\* Enqueue that, when the buffer is full, runs the closure on the caller's
\* goroutine instead of parking.
EnqueueRunWhenFull(t, call) ==
    /\ cpc[t] = "idle"
    /\ call.kind \in workload[t]
    /\ IF ~closed /\ Len(requestChan) = QueueCap
       THEN /\ inflight' = inflight + 1
            /\ UNCHANGED <<requestChan, sendq, sending, cpc, pending>>
       ELSE /\ ChanSend(t, call)
            /\ pending' = [pending EXCEPT ![t] = Append(@, call)]
            /\ UNCHANGED inflight
    /\ ret' = [ret EXCEPT ![t] = "none"]
    /\ UNCHANGED <<closed, ErrorChan, wpc, req, err, unread, workload>>

\* The body shared by the twelve metric methods: build the closure, send it.
Enqueue(t, call) ==
    /\ cpc[t] = "idle"
    /\ call.kind \in workload[t]
    /\ ChanSend(t, call)
    /\ pending' = [pending EXCEPT ![t] = Append(@, call)]
    /\ ret' = [ret EXCEPT ![t] = "none"]
    /\ UNCHANGED <<closed, ErrorChan, wpc, req, err, inflight, unread, workload>>

Closure(kind, stat, value, t) ==
    [kind |-> kind, stat |-> stat, value |-> value, by |-> t]

Incr(t, stat, count) == Enqueue(t, Closure("Incr", stat, count, t))
Decr(t, stat, count) == Enqueue(t, Closure("Decr", stat, count, t))
Timing(t, stat, delta) == Enqueue(t, Closure("Timing", stat, delta, t))
PrecisionTiming(t, stat, delta) == Enqueue(t, Closure("PrecisionTiming", stat, delta, t))
Gauge(t, stat, value) == Enqueue(t, Closure("Gauge", stat, value, t))
GaugeDelta(t, stat, value) == Enqueue(t, Closure("GaugeDelta", stat, value, t))
FGauge(t, stat, value) == Enqueue(t, Closure("FGauge", stat, value, t))
FGaugeDelta(t, stat, value) == Enqueue(t, Closure("FGaugeDelta", stat, value, t))
Absolute(t, stat, value) == Enqueue(t, Closure("Absolute", stat, value, t))
FAbsolute(t, stat, value) == Enqueue(t, Closure("FAbsolute", stat, value, t))
Total(t, stat, value) == Enqueue(t, Closure("Total", stat, value, t))
SendEvent(t, stat, e) == Enqueue(t, Closure("SendEvent", stat, e, t))

----------------------------------------------------------------------------
\* Dequeue taking the newest closure of the buffer instead of the oldest.
DequeueNewest ==
    /\ wpc = "recv"
    /\ requestChan # <<>>
    /\ req' = requestChan[Len(requestChan)]
    /\ IF sendq # <<>>
       THEN /\ requestChan' = Append(SubSeq(requestChan, 1, Len(requestChan) - 1),
                                     sending[Head(sendq)])
            /\ sendq' = Tail(sendq)
            /\ cpc' = [cpc EXCEPT ![Head(sendq)] = "idle"]
            /\ sending' = [sending EXCEPT ![Head(sendq)] = NoCall]
       ELSE /\ requestChan' = SubSeq(requestChan, 1, Len(requestChan) - 1)
            /\ UNCHANGED <<sendq, cpc, sending>>
    /\ wpc' = "exec"
    /\ inflight' = inflight + 1
    /\ UNCHANGED <<closed, ErrorChan, err, ret, pending, unread, workload>>

\* Dequeue resuming the newest parked sender instead of the oldest.
DequeueWakeNewest ==
    /\ wpc = "recv"
    /\ requestChan # <<>>
    /\ req' = Head(requestChan)
    /\ IF sendq # <<>>
       THEN /\ requestChan' = Append(Tail(requestChan), sending[sendq[Len(sendq)]])
            /\ sendq' = SubSeq(sendq, 1, Len(sendq) - 1)
            /\ cpc' = [cpc EXCEPT ![sendq[Len(sendq)]] = "idle"]
            /\ sending' = [sending EXCEPT ![sendq[Len(sendq)]] = NoCall]
       ELSE /\ requestChan' = Tail(requestChan)
            /\ UNCHANGED <<sendq, cpc, sending>>
    /\ wpc' = "exec"
    /\ inflight' = inflight + 1
    /\ UNCHANGED <<closed, ErrorChan, err, ret, pending, unread, workload>>

\* Dequeue that stops receiving once the channel is closed.
DequeueUntilClosed ==
    /\ wpc = "recv"
    /\ ~closed
    /\ requestChan # <<>>
    /\ req' = Head(requestChan)
    /\ IF sendq # <<>>
       THEN /\ requestChan' = Append(Tail(requestChan), sending[Head(sendq)])
            /\ sendq' = Tail(sendq)
            /\ cpc' = [cpc EXCEPT ![Head(sendq)] = "idle"]
            /\ sending' = [sending EXCEPT ![Head(sendq)] = NoCall]
       ELSE /\ requestChan' = Tail(requestChan)
            /\ UNCHANGED <<sendq, cpc, sending>>
    /\ wpc' = "exec"
    /\ inflight' = inflight + 1
    /\ UNCHANGED <<closed, ErrorChan, err, ret, pending, unread, workload>>

\* Dequeue that starts req() without waiting for the previous one (go req()).
DequeueAsync ==
    /\ wpc \in {"recv", "exec"}
    /\ requestChan # <<>>
    /\ req' = Head(requestChan)
    /\ IF sendq # <<>>
       THEN /\ requestChan' = Append(Tail(requestChan), sending[Head(sendq)])
            /\ sendq' = Tail(sendq)
            /\ cpc' = [cpc EXCEPT ![Head(sendq)] = "idle"]
            /\ sending' = [sending EXCEPT ![Head(sendq)] = NoCall]
       ELSE /\ requestChan' = Tail(requestChan)
            /\ UNCHANGED <<sendq, cpc, sending>>
    /\ wpc' = "exec"
    /\ inflight' = inflight + 1
    /\ UNCHANGED <<closed, ErrorChan, err, ret, pending, unread, workload>>

\* process(): req, open := <-c.requestChan with a closure in the buffer.
\* The first parked sender, if any, has its closure moved into the buffer
\* and resumes.  req() is then started.
Dequeue ==
    /\ wpc = "recv"
    /\ requestChan # <<>>
    /\ req' = Head(requestChan)
    /\ IF sendq # <<>>
       THEN /\ requestChan' = Append(Tail(requestChan), sending[Head(sendq)])
            /\ sendq' = Tail(sendq)
            /\ cpc' = [cpc EXCEPT ![Head(sendq)] = "idle"]
            /\ sending' = [sending EXCEPT ![Head(sendq)] = NoCall]
       ELSE /\ requestChan' = Tail(requestChan)
            /\ UNCHANGED <<sendq, cpc, sending>>
    /\ wpc' = "exec"
    /\ inflight' = inflight + 1
    /\ UNCHANGED <<closed, ErrorChan, err, ret, pending, unread, workload>>

\* DequeueClosed that receives again instead of returning.
DequeueClosedSpin ==
    /\ wpc = "recv"
    /\ closed
    /\ requestChan = <<>>
    /\ wpc' = "recv"
    /\ UNCHANGED <<requestChan, closed, sendq, sending, ErrorChan, req, err,
                   inflight, cpc, ret, pending, unread, workload>>

\* DequeueClosed returning as soon as the channel is closed.
DequeueClosedEager ==
    /\ wpc = "recv"
    /\ closed
    /\ wpc' = "done"
    /\ UNCHANGED <<requestChan, closed, sendq, sending, ErrorChan, req, err,
                   inflight, cpc, ret, pending, unread, workload>>

\* process(): the receive finds the channel closed and empty; return.
DequeueClosed ==
    /\ wpc = "recv"
    /\ requestChan = <<>>
    /\ closed
    /\ wpc' = "done"
    /\ UNCHANGED <<requestChan, closed, sendq, sending, ErrorChan, req, err,
                   inflight, cpc, ret, pending, unread, workload>>

\* ExecReturn dropping the error when ErrorChan is full.
ExecReturnDropWhenFull(e) ==
    /\ wpc = "exec"
    /\ inflight' = inflight - 1
    /\ pending' = [pending EXCEPT ![req.by] = Tail(@)]
    /\ unread' = IF e # Nil THEN Append(unread, e) ELSE unread
    /\ IF e # Nil /\ Len(ErrorChan) < ErrCap
       THEN /\ err' = e
            /\ wpc' = "post"
            /\ UNCHANGED req
       ELSE /\ err' = Nil
            /\ wpc' = "recv"
            /\ req' = NoCall
    /\ UNCHANGED <<requestChan, closed, sendq, sending, ErrorChan, cpc, ret, workload>>

\* ExecReturn ending process() when req() returned an error.
ExecReturnExitOnError(e) ==
    /\ wpc = "exec"
    /\ inflight' = inflight - 1
    /\ pending' = [pending EXCEPT ![req.by] = Tail(@)]
    /\ err' = Nil
    /\ req' = NoCall
    /\ wpc' = IF e # Nil THEN "done" ELSE "recv"
    /\ UNCHANGED <<requestChan, closed, sendq, sending, ErrorChan, cpc, ret,
                   unread, workload>>

\* ExecReturn putting a failed closure back in the buffer, to be retried.
ExecReturnRetry(e) ==
    /\ wpc = "exec"
    /\ inflight' = inflight - 1
    /\ IF e # Nil /\ Len(requestChan) < QueueCap
       THEN /\ requestChan' = Append(requestChan, req)
            /\ UNCHANGED pending
       ELSE /\ pending' = [pending EXCEPT ![req.by] = Tail(@)]
            /\ UNCHANGED requestChan
    /\ IF e # Nil
       THEN /\ err' = e
            /\ wpc' = "post"
            /\ unread' = Append(unread, e)
            /\ UNCHANGED req
       ELSE /\ err' = Nil
            /\ wpc' = "recv"
            /\ req' = NoCall
            /\ UNCHANGED unread
    /\ UNCHANGED <<closed, sendq, sending, ErrorChan, cpc, ret, workload>>

\* process(): err := req() returns e; if err != nil, go on to post it.
ExecReturn(e) ==
    /\ wpc = "exec"
    /\ inflight' = inflight - 1
    /\ pending' = [pending EXCEPT ![req.by] = Tail(@)]
    /\ IF e # Nil
       THEN /\ err' = e
            /\ wpc' = "post"
            /\ unread' = Append(unread, e)
            /\ UNCHANGED req
       ELSE /\ err' = Nil
            /\ wpc' = "recv"
            /\ req' = NoCall
            /\ UNCHANGED unread
    /\ UNCHANGED <<requestChan, closed, sendq, sending, ErrorChan, cpc, ret, workload>>

\* Post that drops the error when ErrorChan is full (select with default).
PostNonBlocking ==
    /\ wpc = "post"
    /\ ErrorChan' = IF Len(ErrorChan) < ErrCap THEN Append(ErrorChan, err) ELSE ErrorChan
    /\ err' = Nil
    /\ req' = NoCall
    /\ wpc' = "recv"
    /\ UNCHANGED <<requestChan, closed, sendq, sending, inflight, cpc, ret,
                   pending, unread, workload>>

\* process(): c.ErrorChan <- err, possible once the buffer has room.
Post ==
    /\ wpc = "post"
    /\ Len(ErrorChan) < ErrCap
    /\ ErrorChan' = Append(ErrorChan, err)
    /\ err' = Nil
    /\ req' = NoCall
    /\ wpc' = "recv"
    /\ UNCHANGED <<requestChan, closed, sendq, sending, inflight, cpc, ret,
                   pending, unread, workload>>

\* The application receives one error from c.ErrorChan.
ReadError ==
    /\ ErrorChan # <<>>
    /\ ErrorChan' = Tail(ErrorChan)
    /\ unread' = Tail(unread)
    /\ UNCHANGED <<requestChan, closed, sendq, sending, wpc, req, err, inflight,
                   cpc, ret, pending, workload>>

----------------------------------------------------------------------------
\* CloseBegin closing the channel before it calls c.statsd.Close().
CloseBeginClosingFirst(t) ==
    /\ cpc[t] = "idle"
    /\ cpc' = [cpc EXCEPT ![t] = "close"]
    /\ closed' = TRUE
    /\ ret' = [ret EXCEPT ![t] = "none"]
    /\ UNCHANGED <<requestChan, sendq, sending, ErrorChan, wpc, req, err,
                   inflight, pending, unread, workload>>

\* Close(): c.statsd.Close() is called.
CloseBegin(t) ==
    /\ cpc[t] = "idle"
    /\ cpc' = [cpc EXCEPT ![t] = "close"]
    /\ ret' = [ret EXCEPT ![t] = "none"]
    /\ UNCHANGED <<requestChan, closed, sendq, sending, ErrorChan, wpc, req, err,
                   inflight, pending, unread, workload>>

\* Close(): err := c.statsd.Close() returns e.
StatsdClose(t, e) ==
    /\ cpc[t] = "close"
    /\ cpc' = [cpc EXCEPT ![t] = "closeRet"]
    /\ ret' = [ret EXCEPT ![t] = e]
    /\ UNCHANGED <<requestChan, closed, sendq, sending, ErrorChan, wpc, req, err,
                   inflight, pending, unread, workload>>

\* CloseFail closing the channel before it returns the error.
CloseFailClosing(t) ==
    /\ cpc[t] = "closeRet"
    /\ ret[t] # Nil
    /\ closed' = TRUE
    /\ cpc' = [cpc EXCEPT ![t] = "idle"]
    /\ UNCHANGED <<requestChan, sendq, sending, ErrorChan, wpc, req, err,
                   inflight, ret, pending, unread, workload>>

\* Close(): if err != nil { return err }.
CloseFail(t) ==
    /\ cpc[t] = "closeRet"
    /\ ret[t] # Nil
    /\ cpc' = [cpc EXCEPT ![t] = "idle"]
    /\ UNCHANGED <<requestChan, closed, sendq, sending, ErrorChan, wpc, req, err,
                   inflight, ret, pending, unread, workload>>

\* ChanClose letting the oldest parked sender complete its send.
ChanCloseFlush(t) ==
    IF closed
    THEN /\ cpc' = [cpc EXCEPT ![t] = "panicClose"]
         /\ UNCHANGED <<closed, sendq>>
    ELSE /\ closed' = TRUE
         /\ sendq' = <<>>
         /\ cpc' = [s \in Callers |->
                      IF s = t THEN "idle"
                      ELSE IF cpc[s] = "send" THEN "idle" ELSE cpc[s]]

\* close(c.requestChan): panics on a closed channel; otherwise closes it,
\* and every parked sender panics.
ChanClose(t) ==
    IF closed
    THEN /\ cpc' = [cpc EXCEPT ![t] = "panicClose"]
         /\ UNCHANGED <<closed, sendq>>
    ELSE /\ closed' = TRUE
         /\ sendq' = <<>>
         /\ cpc' = [s \in Callers |->
                      IF s = t THEN "idle"
                      ELSE IF cpc[s] = "send" THEN "panicParked" ELSE cpc[s]]

\* CloseOk waiting for process() to drain the buffer and return.
CloseOkAfterDrain(t) ==
    /\ cpc[t] = "closeRet"
    /\ ret[t] = Nil
    /\ requestChan = <<>>
    /\ wpc = "recv"
    /\ closed' = TRUE
    /\ sendq' = <<>>
    /\ cpc' = [cpc EXCEPT ![t] = "idle"]
    /\ UNCHANGED <<requestChan, sending, ErrorChan, wpc, req, err, inflight,
                   ret, pending, unread, workload>>

\* Close(): err is nil; close(c.requestChan); return nil.
CloseOk(t) ==
    /\ cpc[t] = "closeRet"
    /\ ret[t] = Nil
    /\ ChanClose(t)
    /\ UNCHANGED <<requestChan, sending, ErrorChan, wpc, req, err, inflight,
                   ret, pending, unread, workload>>

----------------------------------------------------------------------------
Next ==
    \/ \E t \in Callers, s \in Stats, v \in Values : Incr(t, s, v)
    \/ \E t \in Callers, s \in Stats, v \in Values : Decr(t, s, v)
    \/ \E t \in Callers, s \in Stats, v \in Values : Timing(t, s, v)
    \/ \E t \in Callers, s \in Stats, v \in Values : PrecisionTiming(t, s, v)
    \/ \E t \in Callers, s \in Stats, v \in Values : Gauge(t, s, v)
    \/ \E t \in Callers, s \in Stats, v \in Values : GaugeDelta(t, s, v)
    \/ \E t \in Callers, s \in Stats, v \in Values : FGauge(t, s, v)
    \/ \E t \in Callers, s \in Stats, v \in Values : FGaugeDelta(t, s, v)
    \/ \E t \in Callers, s \in Stats, v \in Values : Absolute(t, s, v)
    \/ \E t \in Callers, s \in Stats, v \in Values : FAbsolute(t, s, v)
    \/ \E t \in Callers, s \in Stats, v \in Values : Total(t, s, v)
    \/ \E t \in Callers, s \in Stats, v \in Values : SendEvent(t, s, v)
    \/ Dequeue
    \/ DequeueClosed
    \/ \E e \in Errors \cup {Nil} : ExecReturn(e)
    \/ Post
    \/ ReadError
    \/ \E t \in Callers : CreateSocketBegin(t)
    \/ \E t \in Callers : CreateSocketReturn(t)
    \/ \E t \in Callers : CloseBegin(t)
    \/ \E t \in Callers, e \in StatsdCloseResults : StatsdClose(t, e)
    \/ \E t \in Callers : CloseFail(t)
    \/ \E t \in Callers : CloseOk(t)

Spec == Init /\ [][Next]_vars

\* The steps of the goroutine process().
process ==
    \/ Dequeue
    \/ DequeueClosed
    \/ \E e \in Errors \cup {Nil} : ExecReturn(e)
    \/ Post

\* NewAsyncClient, for an application whose callers use Incr and Decr,
\* Timing and PrecisionTiming.
LiveInit ==
    /\ Init
    /\ workload = [c1 |-> {"Incr", "Decr"}, c2 |-> {"Timing", "PrecisionTiming"}]

\* The Go scheduler runs a goroutine that can run, and every operation of
\* the statsd client returns.  Nothing makes the application call the
\* facade or read ErrorChan.
LiveSpec == LiveInit /\ [][Next]_vars /\ WF_vars(process)

\* LiveSpec for an application that, whenever ErrorChan holds an error,
\* eventually receives from it.
ReadingSpec == LiveSpec /\ WF_vars(ReadError)

----------------------------------------------------------------------------
\* The calls of caller t that are in the buffer, oldest first.
QueuePart(t) == SelectSeq(requestChan, LAMBDA c : c.by = t)

\* The call of caller t that the statsd client is executing.
ExecPart(t) == IF wpc = "exec" /\ req.by = t THEN <<req>> ELSE <<>>

\* The call of caller t that is parked in its send, or was aborted by a panic.
SendPart(t) == IF cpc[t] \in {"send", "panicSend", "panicParked"} THEN <<sending[t]>> ELSE <<>>

RECURSIVE Outstanding(_)
Outstanding(S) ==
    IF S = {} THEN 0
    ELSE LET t == CHOOSE x \in S : TRUE
         IN  Len(pending[t]) + Outstanding(S \ {t})

\* Caller t makes a metric call in this step.
Attempt(t) == Len(pending'[t]) > Len(pending[t])

\* C1: the statsd client receives the calls of one caller with the kind and
\* arguments they were made with and in the order they were made, whatever
\* the other callers enqueue in between: the operation it is executing is
\* the oldest call of its caller that it has not completed, and the calls of
\* a caller still to come are, in call order, those in the buffer followed by
\* the one parked in its send.
C1_CallerOrder ==
    /\ wpc = "exec" =>
         /\ pending[req.by] # <<>>
         /\ Head(pending[req.by]) = req
    /\ \A t \in Callers : pending[t] = ExecPart(t) \o QueuePart(t) \o SendPart(t)

C1_Witness ==
    /\ wpc = "exec"
    /\ Len(requestChan) = 2
    /\ requestChan[1].by # req.by
    /\ requestChan[2].by = req.by
    /\ requestChan[2].kind # req.kind

\* C2: the errors the statsd client returned and the application has not
\* read are exactly the contents of ErrorChan followed by the error process()
\* is about to post: every failing call posts its error once, in execution
\* order, and a succeeding call posts nothing.
C2_ErrorsPostedOnceInOrder ==
    unread = ErrorChan \o (IF wpc = "post" THEN <<err>> ELSE <<>>)

C2_Witness ==
    /\ ErrorChan = <<"E1">>
    /\ wpc = "post"
    /\ err = "E2"
    /\ unread = <<"E1", "E2">>

\* C3: when process() has returned, the channel was closed and every call
\* that was put in the buffer has been executed: the only calls not executed
\* are those whose send panicked.
C3_DrainedBeforeDone ==
    wpc = "done" =>
        /\ closed
        /\ requestChan = <<>>
        /\ \A t \in Callers :
              /\ cpc[t] # "send"
              /\ pending[t] = SendPart(t)

\* process() executing a call after a successful Close(), with another
\* call still in the buffer.
C3_Witness ==
    /\ closed
    /\ \E t \in Callers : ret[t] = Nil
    /\ wpc = "exec"
    /\ requestChan # <<>>

\* C4: a metric call on the open channel parks its caller exactly when the
\* buffer holds QueueCap closures; and no caller is parked while at most
\* QueueCap calls are outstanding, whatever process() has done.
C4_BlocksIffFull ==
    /\ [](\A t \in Callers : cpc[t] = "send" => Outstanding(Callers) > QueueCap)
    /\ [][\A t \in Callers :
            (Attempt(t) /\ ~closed) =>
                ((cpc'[t] = "send") <=> (Len(requestChan) = QueueCap))]_vars

\* QueueCap calls were put in the buffer without parking their callers,
\* the next one has parked its caller, and process() has executed none.
C4_Witness ==
    /\ Len(requestChan) = QueueCap
    /\ Outstanding(Callers) = QueueCap + 1
    /\ wpc = "recv"
    /\ \E t \in Callers : cpc[t] = "send"

\* process() is parked posting to a full ErrorChan.
Stalled == wpc = "post" /\ Len(ErrorChan) = ErrCap

\* C5: a caller parked in a metric call leaves its send only when process()
\* receives a closure, its own closure then being the newest of the buffer
\* and the method returning (or when the channel is closed, which makes the
\* send panic); and, unless process() stays parked on a full ErrorChan for
\* ever, every parked caller eventually leaves its send.
C5_ParkedUntilDequeue ==
    /\ [][\A t \in Callers :
            (cpc[t] = "send" /\ cpc'[t] # "send") =>
                \/ /\ wpc = "recv" /\ wpc' = "exec"
                   /\ ~closed'
                   /\ cpc'[t] = "idle"
                   /\ Len(requestChan') = QueueCap
                   /\ requestChan'[QueueCap] = sending[t]
                \/ /\ ~closed /\ closed'
                   /\ cpc'[t] = "panicParked"]_vars
    /\ \A t \in Callers :
          \/ [](cpc[t] = "send" => <>(cpc[t] # "send"))
          \/ <>[]Stalled

\* Both callers parked, process() about to receive.
C5_Witness ==
    /\ Len(sendq) = 2
    /\ wpc = "recv"
    /\ ~closed

\* The closure caller t passes to its send in this step.
Sent(t) == pending'[t][Len(pending'[t])]

\* C6: when c.statsd.Close() returned an error, Close() returns that error
\* and changes neither the channel, nor its buffer, nor process(); and a
\* metric call the caller makes next on the open channel is accepted as
\* before (put in the buffer, or parked when the buffer is full).
C6_CloseFailureLeavesQueueOpen ==
    /\ [][\A t \in Callers :
            (cpc[t] = "closeRet" /\ ret[t] # Nil /\ cpc'[t] # "closeRet") =>
                /\ cpc'[t] = "idle"
                /\ ret[t] \in CloseErrors
                /\ ret'[t] = ret[t]
                /\ UNCHANGED <<requestChan, closed, sendq, sending, ErrorChan,
                               wpc, req, err, inflight, pending>>]_vars
    /\ [][\A t \in Callers :
            (Attempt(t) /\ ret[t] \in CloseErrors /\ ~closed) =>
                \/ /\ requestChan' = Append(requestChan, Sent(t))
                   /\ cpc'[t] = "idle"
                \/ /\ Len(requestChan) = QueueCap
                   /\ cpc'[t] = "send"
                   /\ sending'[t] = Sent(t)]_vars

\* Close() returned an error; the channel is open and holds closures, and
\* process() is executing one.
C6_Witness ==
    /\ \E t \in Callers : cpc[t] = "idle" /\ ret[t] \in CloseErrors
    /\ ~closed
    /\ wpc = "exec"
    /\ requestChan # <<>>

\* C7: once the channel is closed no sender is parked on it, every metric
\* call panics in its send and leaves the buffer as it is, the buffer only
\* loses its head to process(), and process() executes only closures it
\* took from the buffer.
C7_NoEnqueueAfterClose ==
    /\ [](closed => sendq = <<>> /\ \A t \in Callers : cpc[t] # "send")
    /\ [][closed =>
            /\ \A t \in Callers :
                  Attempt(t) => cpc'[t] = "panicSend" /\ requestChan' = requestChan
            /\ \/ requestChan' = requestChan
               \/ /\ requestChan # <<>>
                  /\ requestChan' = Tail(requestChan)
                  /\ req' = Head(requestChan)
            /\ inflight' > inflight => requestChan # <<>> /\ req' = Head(requestChan)]_vars

\* A metric call made after a successful Close() has panicked.
C7_Witness ==
    /\ closed
    /\ \E t \in Callers : cpc[t] = "panicSend"
    /\ \E u \in Callers : cpc[u] = "idle" /\ ret[u] = Nil

\* C8: at most one metric operation of the statsd client is in progress at
\* any time, and it is the one process() is executing.
C8_OneExecutionAtATime ==
    /\ inflight \in {0, 1}
    /\ inflight = 1 <=> wpc = "exec"

\* process() executing a closure while both callers are parked in a send.
C8_Witness ==
    /\ inflight = 1
    /\ Len(sendq) = 2
    /\ \E i, j \in 1..Len(requestChan) : requestChan[i].by # requestChan[j].by

\* C9: while process() is parked posting to a full ErrorChan and no error is
\* read, it stays parked there, no closure is taken from the buffer or
\* executed, a metric call made on the full open channel parks its caller,
\* and a parked caller stays parked as long as the channel is not closed; the
\* only change to ErrorChan is the application reading its head.
C9_FullErrorChanStalls ==
    [][Stalled =>
         /\ ErrorChan' # ErrorChan => ErrorChan' = Tail(ErrorChan) /\ wpc' = "post"
         /\ ErrorChan' = ErrorChan =>
              /\ Stalled'
              /\ UNCHANGED <<req, err, inflight>>
              /\ Len(requestChan') >= Len(requestChan)
              /\ SubSeq(requestChan', 1, Len(requestChan)) = requestChan
              /\ \A t \in Callers :
                    /\ (Attempt(t) /\ ~closed /\ Len(requestChan) = QueueCap) =>
                          cpc'[t] = "send"
                    /\ (cpc[t] = "send" /\ ~closed') => cpc'[t] = "send"]_vars

\* The whole pipeline stalled: ErrorChan full, process() parked posting,
\* the buffer full and every caller parked.
C9_Witness ==
    /\ Stalled
    /\ Len(requestChan) = QueueCap
    /\ \A t \in Callers : cpc[t] = "send"

\* C10: once c.statsd.Close() has returned, Close() can always take its next
\* step, whatever the buffer holds and wherever process() is; with a nil
\* error and the channel open that step closes the channel and returns nil,
\* and it touches neither the buffer nor process().
C10_CloseDoesNotWait ==
    /\ [](\A t \in Callers :
            cpc[t] = "closeRet" => ENABLED (CloseOk(t) \/ CloseFail(t)))
    /\ [][\A t \in Callers :
            (cpc[t] = "closeRet" /\ ret[t] = Nil /\ cpc'[t] # "closeRet") =>
                /\ closed'
                /\ ~closed => cpc'[t] = "idle" /\ ret'[t] = Nil
                /\ UNCHANGED <<requestChan, ErrorChan, wpc, req, err, inflight>>]_vars

\* Close() has returned nil while closures are still in the buffer and
\* process() is parked posting to a full ErrorChan.
C10_Witness ==
    /\ closed
    /\ Stalled
    /\ requestChan # <<>>
    /\ \E t \in Callers : cpc[t] = "idle" /\ ret[t] = Nil

\* C11: process() returns only from a receive that finds the channel closed
\* and its buffer empty; an error of req() leads it to the post and from the
\* post back to the receive; and once it has returned it stays returned,
\* receives nothing, executes nothing and posts nothing.
C11_WorkerLeavesOnlyWhenDrained ==
    [][/\ (wpc # "done" /\ wpc' = "done") =>
              wpc = "recv" /\ closed /\ requestChan = <<>>
       /\ (wpc = "exec" /\ wpc' # "exec") =>
              \/ wpc' = "recv" /\ err' = Nil
              \/ wpc' = "post" /\ err' \in Errors
       /\ (wpc = "post" /\ wpc' # "post") => wpc' = "recv"
       /\ wpc = "done" =>
              /\ wpc' = "done"
              /\ UNCHANGED <<req, err, inflight, requestChan>>
              /\ Len(ErrorChan') <= Len(ErrorChan)]_vars

\* process() has returned after an execution error that it posted.
C11_Witness ==
    /\ wpc = "done"
    /\ ErrorChan # <<>>

\* C12: no caller is inside c.statsd.Close() or c.statsd.CreateSocket()
\* while process() is executing a closure against the same statsd client.
C12_NoOverlapWithDispatch ==
    inflight > 0 => \A t \in Callers : cpc[t] \notin {"close", "sock"}

\* C13: the channel is closed at most once: no Close() reaches
\* close(c.requestChan) on a channel that is already closed.
C13_ClosedOnce ==
    \A t \in Callers : cpc[t] # "panicClose"

\* The callers whose send is parked or was aborted by a panic.
Unsent == {t \in Callers : cpc[t] \in {"send", "panicSend", "panicParked"}}

\* C14: a closure leaves the buffer only when process() receives it, which
\* starts its one execution; a closure enters the buffer only by the send of
\* a metric call, once; the end of an execution, failed or not, puts nothing
\* back; and the calls not yet completed are as many as the closures in the
\* buffer, in execution and in unfinished sends, so none is executed twice
\* and none is withdrawn.
C14_ExecutedAtMostOnce ==
    /\ [](Outstanding(Callers) = Len(requestChan) + inflight + Cardinality(Unsent))
    /\ [][/\ inflight' > inflight =>
                /\ requestChan # <<>>
                /\ req' = Head(requestChan)
                /\ \/ requestChan' = Tail(requestChan)
                   \/ /\ sendq # <<>>
                      /\ requestChan' = Append(Tail(requestChan), sending[Head(sendq)])
          /\ inflight' <= inflight =>
                \/ requestChan' = requestChan
                \/ \E t \in Callers :
                      Attempt(t) /\ requestChan' = Append(requestChan, Sent(t))
          /\ inflight' < inflight =>
                /\ wpc = "exec"
                /\ inflight' = inflight - 1
                /\ pending' = [pending EXCEPT ![req.by] = Tail(@)]]_vars

\* A closure was executed and failed; nothing of it is left to execute.
C14_Witness ==
    /\ wpc = "post"
    /\ requestChan = <<>>
    /\ \A t \in Callers : pending[t] = <<>>

\* C15: a metric call does nothing but send one closure: the closure is
\* appended to the buffer, or its caller parks or panics in the send with
\* the buffer as it was; ErrorChan, the channel's state and process() are
\* untouched and the caller is handed no result.  A statsd metric operation
\* is started only by process() leaving its receive, and ErrorChan grows
\* only by process() leaving its post.
C15_MetricCallOnlyEnqueues ==
    [][/\ \A t \in Callers :
             Attempt(t) =>
                 /\ cpc[t] = "idle"
                 /\ \/ /\ requestChan' = Append(requestChan, Sent(t))
                       /\ cpc'[t] = "idle"
                    \/ /\ requestChan' = requestChan
                       /\ cpc'[t] \in {"send", "panicSend"}
                       /\ sending'[t] = Sent(t)
                 /\ ret'[t] = "none"
                 /\ UNCHANGED <<ErrorChan, unread, inflight, wpc, req, err, closed>>
                 /\ \A u \in Callers \ {t} :
                       cpc'[u] = cpc[u] /\ pending'[u] = pending[u]
       /\ inflight' > inflight => wpc = "recv" /\ wpc' = "exec"
       /\ Len(ErrorChan') > Len(ErrorChan) => wpc = "post" /\ wpc' = "recv"]_vars

\* A metric call has returned to its caller; its closure is in the buffer,
\* nothing has been executed and nothing posted.
C15_Witness ==
    /\ Len(requestChan) = 1
    /\ Outstanding(Callers) = 1
    /\ \A t \in Callers : cpc[t] = "idle"
    /\ wpc = "recv"
    /\ inflight = 0
    /\ ErrorChan = <<>>

\* C16: the step that closes the channel is taken by a caller whose
\* c.statsd.Close() has already returned nil, and it leaves the buffer as it
\* is; so whatever process() receives once the channel is closed was in the
\* buffer when the statsd client had already been closed.
C16_StatsdClosedBeforeChannel ==
    [][/\ (~closed /\ closed') =>
             /\ \E t \in Callers :
                   /\ cpc[t] = "closeRet"
                   /\ ret[t] = Nil
                   /\ cpc'[t] = "idle"
             /\ UNCHANGED <<requestChan, wpc, req, inflight>>
       /\ (closed /\ inflight' > inflight) =>
             /\ requestChan # <<>>
             /\ req' = Head(requestChan)
             /\ requestChan' = Tail(requestChan)]_vars

\* Close() has returned nil with the buffer full and process() waiting to
\* receive: every closure of the buffer will run on the closed statsd client.
C16_Witness ==
    /\ closed
    /\ Len(requestChan) = QueueCap
    /\ wpc = "recv"
    /\ \E t \in Callers : cpc[t] = "idle" /\ ret[t] = Nil

\* C17: the step that closes the channel turns every caller parked in a send
\* into a panicked one and leaves the buffer as it is; the closure of such a
\* caller never enters the buffer and is never executed: it stays for ever
\* the one call of that caller the statsd client has not received.
C17_ParkedSenderAbortsOnClose ==
    /\ [](\A t \in Callers :
            cpc[t] = "panicParked" =>
                /\ closed
                /\ pending[t] # <<>>
                /\ pending[t][Len(pending[t])] = sending[t]
                /\ Len(QueuePart(t)) + Len(ExecPart(t)) = Len(pending[t]) - 1)
    /\ [][\A t \in Callers :
            /\ (cpc[t] = "send" /\ ~closed /\ closed') =>
                  /\ cpc'[t] = "panicParked"
                  /\ sending'[t] = sending[t]
                  /\ requestChan' = requestChan
                  /\ sendq' = <<>>
            /\ cpc[t] = "panicParked" =>
                  /\ cpc'[t] = "panicParked"
                  /\ sending'[t] = sending[t]]_vars

\* process() has drained the buffer and returned; the closure of the caller
\* that was parked when the channel was closed was never executed.
C17_Witness ==
    /\ wpc = "done"
    /\ \E t \in Callers : cpc[t] = "panicParked" /\ pending[t] = <<sending[t]>>

\* The closures the callers of LiveInit can build.
LiveClosures ==
    { Closure(k, s, v, t) : k \in {"Incr", "Decr"}, s \in Stats, v \in Values, t \in {"c1"} }
    \cup
    { Closure(k, s, v, t) : k \in {"Timing", "PrecisionTiming"}, s \in Stats, v \in Values, t \in {"c2"} }

\* C18: when every call of the statsd client returns, process() is scheduled
\* fairly and the application eventually receives from a non-empty
\* ErrorChan, a closure that is in the buffer of requestChan is eventually
\* the one process() executes, whether the channel is open or closed.
C18_EnqueuedEventuallyExecuted ==
    \A c \in LiveClosures :
        (\E i \in 1..Len(requestChan) : requestChan[i] = c)
            ~> (wpc = "exec" /\ req = c)

\* The channel was closed with closures still in the buffer and process()
\* is executing the last of them behind a full ErrorChan.
C18_Witness ==
    /\ closed
    /\ wpc = "exec"
    /\ requestChan = <<>>
    /\ Len(ErrorChan) = ErrCap

\* C19: when every call of the statsd client returns and process() is
\* scheduled fairly, process() returns after the channel has been closed,
\* unless from some point on it is parked for ever in its send on a full
\* ErrorChan; and once it is parked there with the channel closed, it has
\* not returned for as long as ErrorChan stays full, so it never returns if
\* nobody receives from ErrorChan.
C19_TerminatesUnlessErrorChanFull ==
    /\ (closed ~> wpc = "done") \/ <>[]Stalled
    /\ []((closed /\ Stalled) =>
            ([](Len(ErrorChan) = ErrCap) => [](wpc = "post")))

\* The channel is closed, the last closure of the buffer has failed, and
\* process() is parked in its send on the full ErrorChan.
C19_Witness ==
    /\ closed
    /\ Stalled
    /\ requestChan = <<>>

====
